---- MODULE Spec2Model ----
(***************************************************************************)
(* The planning-report orchestrator, the refresh scheduler and the TTL /   *)
(* cooldown caches of server/src/index.ts, with the token cache of         *)
(* server/src/spapi.ts and the Reports API helpers (reports.ts).           *)
(*                                                                         *)
(* Node runs one callback at a time: an action is one callback, i.e. the   *)
(* code from one resumption of an async function to its next real await    *)
(* (an HTTP request in flight, a timer).  An await of an already settled   *)
(* promise only yields to the microtask queue and is not a step boundary.  *)
(* The upstream API is an external collaborator: every response is drawn   *)
(* from a small set of the shapes the code distinguishes.                  *)
(*                                                                         *)
(* Spec is the server at work: sweeps and manual refreshes interleaving,   *)
(* the clock advancing.  SpecTTL applies the two cache getters to entries  *)
(* of every age around their TTL.  SpecSequential is one task's runs, one  *)
(* after the other, over more than a TTL.  SpecSnapshot serves inventory   *)
(* snapshots (the merge of live items and planning records).  SpecToken    *)
(* calls getAccessToken on tokens that expire around the safety margin.    *)
(* SpecStatus adds the status query to SpecSequential.  SpecAging applies   *)
(* computeAge90Plus to parsed rows.  SpecCache adds cachePlanningReport to *)
(* SpecSnapshot.  SpecLive is the scheduled sweeps under fair completion   *)
(* of their requests and timers.                                           *)
(***************************************************************************)
EXTENDS Integers, Sequences, FiniteSets, TLC

----------------------------------------------------------------------------
(* Bounds of the model *)

\* number of clock advances in one behaviour (each at any point of it)
MaxTicks == 1

----------------------------------------------------------------------------
(* Program constants *)

StoreKey == {"US", "UK", "CA", "AU"}
REPORT_STORES == <<"US">>
REPORT_CACHE_TTL_MS == 6 * 60 * 60 * 1000
REPORT_COOLDOWN_MS == 15 * 60 * 1000
SHIPMENTS_CACHE_TTL_MS == 5 * 60 * 1000
\* getAccessToken's safety margin (60_000 ms) and default expires_in (s)
TOKEN_MARGIN_MS == 60000
DEFAULT_EXPIRES_IN == 3600
\* the poll loops' attempt ceiling
POLL_ATTEMPTS == 12

\* REGION_CONFIG[store].refreshToken: which refresh token a store uses
TokenKeys == {"NA", "EU", "AU"}
RefreshTokenOf(store) ==
  CASE store \in {"US", "CA"} -> "NA"
    [] store = "UK" -> "EU"
    [] OTHER -> "AU"

----------------------------------------------------------------------------
(* Inputs: what the outside world may send *)

\* a clock advance: one hour, which outlasts every cooldown and the lifetime
\* of a token, and leaves a cached planning report fresh
HOUR_MS == 60 * 60 * 1000
TickSteps == {HOUR_MS}
\* the store named by a manual-refresh request
RequestedStores == {"US", "UK", "ZZ"}
\* retry-after header of a failed call, in seconds (0: header absent)
RetryAfters == {0, 120}
\* HTTP status of a failed call
FailStatuses == {429, 500}
\* expires_in of a token response, in seconds
ExpiresIns == {DEFAULT_EXPIRES_IN}
\* processingStatus of a getReport payload ("": absent)
PollStatuses == {"", "IN_PROGRESS", "DONE", "CANCELLED", "FATAL"}
\* reportId of a createReport response ("": absent)
CreatedIds == {"R1", ""}
\* url of a getReportDocument payload ("": absent)
DocumentUrls == {"U", ""}

\* the document of a finished report
DocOf(reportId) ==
  CASE reportId = "R1" -> "D1"
    [] OTHER -> "D0"

\* One listed report.  createdTime is an ISO-8601 string in the program,
\* compared with localeCompare; here a number that orders the same way,
\* 0 standing for an absent createdTime.  "R1" is the job the runs create
\* and poll, listed pending (with or without its id) or done (with or
\* without its document id); "R0" is another, finished report.
JobShapes ==
  [reportId : {"R1", ""}, createdTime : 0..2,
   processingStatus : {"IN_PROGRESS"}, reportDocumentId : {""}]
  \cup
  [reportId : {"R1"}, createdTime : 0..2,
   processingStatus : {"DONE"}, reportDocumentId : {DocOf("R1"), ""}]

OtherShapes ==
  [reportId : {"R0"}, createdTime : 0..2,
   processingStatus : {"DONE"}, reportDocumentId : {DocOf("R0"), ""}]

\* the lists answered: none, one or two reports, dated or not, in either
\* order of creation
ListResponses ==
  {<<>>} \cup {<<a>> : a \in JobShapes}
         \cup {<<a, b>> : a \in JobShapes, b \in OtherShapes}

----------------------------------------------------------------------------
(* State *)

VARIABLES
  now,                        \* Date.now()
  ticks,                      \* clock advances so far (bounds the model)
  env,                        \* process.env: which credentials are set
  planningCache,              \* Map<StoreKey, PlanningCache>
  shipmentsCache,             \* Map<StoreKey, {fetchedAt, shipments}>
  reportCooldownUntil,        \* Map<StoreKey, number>, 0: no entry
  planningRefreshInProgress,  \* the sweep's in-progress flag
  tokenCache,                 \* spapi.ts tokenCache, by refresh token
  run,                        \* each task's position and locals
  last,                       \* history: what the latest step ended, if anything
  got                         \* history: what the latest cache read returned

vars == <<now, ticks, env, planningCache, shipmentsCache, reportCooldownUntil,
          planningRefreshInProgress, tokenCache, run, last, got>>

SweepProcs == {"sweep1", "sweep2"}
ManualProcs == {"manual1"}
Procs == SweepProcs \cup ManualProcs

NoEntry == [present |-> FALSE, fetchedAt |-> 0, doc |-> ""]
NoToken == [present |-> FALSE, expiresAt |-> 0]

\* Locals of a task.  pc is the request the task waits on ("idle": none);
\* tok says the request in flight is still the token POST that precedes it,
\* started at t0.  idx is the sweep's position in REPORT_STORES, att the
\* poll loop's attempt, rid / doc the report and document in hand, latest
\* the listed status of the report picked up by the reuse check.
\* History: out is the way the run returned, after the job the run before
\* this one gave up polling ("": none).
Idle == [pc |-> "idle", tok |-> FALSE, t0 |-> 0, store |-> "",
         idx |-> 0, att |-> 0, rid |-> "", doc |-> "", latest |-> "",
         out |-> "", after |-> ""]

\* process.env as far as hasCredentials reads it: TRUE is a non-empty value
AllSet == [lwaClientId |-> TRUE, lwaClientSecret |-> TRUE,
           refreshToken |-> [k \in TokenKeys |-> TRUE]]
EnvChoices ==
  {AllSet,
   [AllSet EXCEPT !.refreshToken = [k \in TokenKeys |-> k # "NA"]],
   [AllSet EXCEPT !.lwaClientSecret = FALSE]}

----------------------------------------------------------------------------
(* The caches' getters and the guards *)

\* variant: an entry is stale from the moment its age reaches the TTL
getPlanningCacheStrict(store) ==
  LET cached == planningCache[store]
  IN IF ~cached.present THEN NoEntry
     ELSE IF now - cached.fetchedAt >= REPORT_CACHE_TTL_MS THEN NoEntry
     ELSE cached

getPlanningCache(store) ==
  LET cached == planningCache[store]
  IN IF ~cached.present THEN NoEntry
     ELSE IF now - cached.fetchedAt > REPORT_CACHE_TTL_MS THEN NoEntry
     ELSE cached

getShipmentsCache(store) ==
  LET cached == shipmentsCache[store]
  IN IF ~cached.present THEN NoEntry
     ELSE IF now - cached.fetchedAt > SHIPMENTS_CACHE_TTL_MS THEN NoEntry
     ELSE cached

hasCredentials(store) ==
  /\ env.lwaClientId
  /\ env.lwaClientSecret
  /\ store \in StoreKey
  /\ env.refreshToken[RefreshTokenOf(store)]

\* the cooldown gate of refreshPlanningReport
CoolingDown(store) == now < reportCooldownUntil[store]

\* variant: a cached token is used until it expires
TokenUsableUntilExpiry(store) ==
  LET cached == tokenCache[RefreshTokenOf(store)]
  IN cached.present /\ cached.expiresAt > now

\* getAccessToken's test of the cached token
TokenUsable(store) ==
  LET cached == tokenCache[RefreshTokenOf(store)]
  IN cached.present /\ cached.expiresAt > now + TOKEN_MARGIN_MS

\* variant: the retry-after header is not read
BackoffDefaultOnly(retryAfter) == REPORT_COOLDOWN_MS

\* createReportOnce's backoff for a 429
Backoff(retryAfter) ==
  IF retryAfter > 0 THEN retryAfter * 1000 ELSE REPORT_COOLDOWN_MS

\* the block of a rate-limited region
BlockedUntil(store, retryAfter) == now + Backoff(retryAfter)

\* variant: only a cancelled job ends the polling
IsTerminalFailureCancelledOnly(status) == status = "CANCELLED"

\* the poll loops' terminal failure
IsTerminalFailure(status) == status \in {"CANCELLED", "FATAL"}

\* reports.filter(createdTime).sort(b.createdTime.localeCompare(a.createdTime))[0]
\* (the sort is stable: of equal createdTimes the first listed comes first)
Dated(reports) == SelectSeq(reports, LAMBDA r : r.createdTime # 0)

\* variant: the first dated report listed, without the sort
LatestOfFirstListed(reports) == Dated(reports)[1]

LatestOf(reports) ==
  LET dated == Dated(reports)
      best == CHOOSE i \in 1..Len(dated) :
                \A j \in 1..Len(dated) :
                  \/ dated[j].createdTime < dated[i].createdTime
                  \/ dated[j].createdTime = dated[i].createdTime /\ i <= j
  IN dated[best]

----------------------------------------------------------------------------
(* Synchronous pieces of the orchestrator, as functions of a task's locals *)

\* spApiGet / spApiPost: the request goes out at once when getAccessToken
\* returns the cached token, else after the token POST has been answered.
Issue(r, pos) ==
  IF TokenUsable(r.store)
  THEN [r EXCEPT !.pc = pos, !.tok = FALSE, !.t0 = 0]
  ELSE [r EXCEPT !.pc = pos, !.tok = TRUE, !.t0 = now]

\* downloadReport: axios.get of the document URL, no token
IssueDownload(r, pos) == [r EXCEPT !.pc = pos, !.tok = FALSE, !.t0 = 0]

\* refreshPlanningReport returns
Return(r, outcome) ==
  [Idle EXCEPT !.pc = "returned", !.store = r.store, !.idx = r.idx,
               !.rid = r.rid, !.out = outcome]

\* refreshPlanningReport after `reused = await loadLatestPlanningReport`
AfterLoadLatest(r, reused, outcome) ==
  LET fresh == [r EXCEPT !.att = 0, !.rid = "", !.doc = "", !.latest = ""]
  IN IF reused THEN Return(r, outcome)
     ELSE IF CoolingDown(r.store) THEN Return(fresh, "coolingDown")
     ELSE Issue(fresh, "create")

\* variant: no short-circuit on a fresh cache
StartRefreshAlways(store, idx) ==
  LET r == [Idle EXCEPT !.store = store, !.idx = idx]
  IN IF ~hasCredentials(store) THEN Return(r, "noCredentials")
     ELSE Issue(r, "list")

\* variant: the cooldown is tested before the reuse check
StartRefreshCooldownFirst(store, idx) ==
  LET r == [Idle EXCEPT !.store = store, !.idx = idx]
  IN IF ~hasCredentials(store) THEN Return(r, "noCredentials")
     ELSE IF getPlanningCache(store).present THEN Return(r, "fresh")
     ELSE IF CoolingDown(store) THEN Return(r, "coolingDown")
     ELSE Issue(r, "list")

\* refreshPlanningReport up to its first request
StartRefresh(store, idx) ==
  LET r == [Idle EXCEPT !.store = store, !.idx = idx]
  IN IF ~hasCredentials(store) THEN Return(r, "noCredentials")
     ELSE IF getPlanningCache(store).present THEN Return(r, "fresh")
     ELSE Issue(r, "list")

\* variant: a pending latest report is not polled, the run creates anew
AfterListNoResume(r, reports) ==
  IF Len(reports) = 0 THEN AfterLoadLatest(r, FALSE, "")
  ELSE IF Len(Dated(reports)) = 0 THEN AfterLoadLatest(r, FALSE, "")
  ELSE LET latest == LatestOf(reports)
       IN IF latest.processingStatus # "" /\ latest.processingStatus # "DONE"
          THEN AfterLoadLatest(r, FALSE, "")
          ELSE IF latest.reportDocumentId = ""
               THEN AfterLoadLatest(r, FALSE, "")
               ELSE Issue([r EXCEPT !.rid = latest.reportId,
                                    !.doc = latest.reportDocumentId,
                                    !.latest =
                                      IF latest.processingStatus = ""
                                      THEN "unset" ELSE "DONE"],
                          "reuseDoc")

\* loadLatestPlanningReport once listReports has answered
AfterList(r, reports) ==
  IF Len(reports) = 0 THEN AfterLoadLatest(r, FALSE, "")
  ELSE IF Len(Dated(reports)) = 0 THEN AfterLoadLatest(r, FALSE, "")
  ELSE LET latest == LatestOf(reports)
       IN IF latest.processingStatus # "" /\ latest.processingStatus # "DONE"
          THEN IF latest.reportId # ""
               THEN Issue([r EXCEPT !.att = 0, !.rid = latest.reportId,
                                    !.latest = latest.processingStatus],
                          "reusePoll")
               ELSE AfterLoadLatest(r, TRUE, "alreadyProcessing")
          ELSE IF latest.reportDocumentId = ""
               THEN AfterLoadLatest(r, FALSE, "")
               ELSE Issue([r EXCEPT !.rid = latest.reportId,
                                    !.doc = latest.reportDocumentId,
                                    !.latest =
                                      IF latest.processingStatus = ""
                                      THEN "unset" ELSE "DONE"],
                          "reuseDoc")

\* one getReport answer inside loadLatestPlanningReport's poll loop
AfterReusePoll(r, status, docId) ==
  IF status = "DONE" /\ docId # ""
  THEN Issue([r EXCEPT !.doc = docId], "reusePollDoc")
  ELSE IF IsTerminalFailure(status) THEN AfterLoadLatest(r, FALSE, "")
  ELSE IF r.att + 1 < POLL_ATTEMPTS
       THEN Issue([r EXCEPT !.att = r.att + 1], "reusePoll")
       ELSE AfterLoadLatest(r, TRUE, "alreadyProcessing")

\* variant: the loop's bound admits one attempt more
AfterPollOneMore(r, status, docId) ==
  IF status = "DONE" /\ docId # ""
  THEN Issue([r EXCEPT !.doc = docId], "doc")
  ELSE IF IsTerminalFailure(status) THEN Return(r, "jobFailed")
  ELSE IF r.att + 1 <= POLL_ATTEMPTS
       THEN Issue([r EXCEPT !.att = r.att + 1], "poll")
       ELSE Return(r, "pollExhausted")

\* variant: a done report is taken whether or not it has a document id
AfterPollDocIdUnchecked(r, status, docId) ==
  IF status = "DONE"
  THEN Issue([r EXCEPT !.doc = docId], "doc")
  ELSE IF IsTerminalFailure(status) THEN Return(r, "jobFailed")
  ELSE IF r.att + 1 < POLL_ATTEMPTS
       THEN Issue([r EXCEPT !.att = r.att + 1], "poll")
       ELSE Return(r, "pollExhausted")

\* one getReport answer inside refreshPlanningReport's poll loop
AfterPoll(r, status, docId) ==
  IF status = "DONE" /\ docId # ""
  THEN Issue([r EXCEPT !.doc = docId], "doc")
  ELSE IF IsTerminalFailure(status) THEN Return(r, "jobFailed")
  ELSE IF r.att + 1 < POLL_ATTEMPTS
       THEN Issue([r EXCEPT !.att = r.att + 1], "poll")
       ELSE Return(r, "pollExhausted")

\* getReportDocument has answered
AfterDocument(r, url) ==
  IF url = ""
  THEN CASE r.pc = "reusePollDoc" -> AfterLoadLatest(r, TRUE, "noUrl")
         [] r.pc = "reuseDoc" -> AfterLoadLatest(r, FALSE, "")
         [] OTHER -> Return(r, "noUrl")
  ELSE CASE r.pc = "reusePollDoc" -> IssueDownload(r, "reusePollDl")
         [] r.pc = "reuseDoc" -> IssueDownload(r, "reuseDl")
         [] OTHER -> IssueDownload(r, "dl")

\* createReportOnce has its reportId
AfterCreate(r, reportId) ==
  IF reportId = "" THEN Return(r, "noReportId")
  ELSE Issue([r EXCEPT !.att = 0, !.rid = reportId], "poll")

\* cachePlanningReport / the planningCache.set of refreshPlanningReport
CachedEntry(r) == [present |-> TRUE, fetchedAt |-> now, doc |-> r.doc]

----------------------------------------------------------------------------
(* Initial state: the server has just started *)

\* no cache read yet
NoRead == [cache |-> "", store |-> "", value |-> NoEntry]

NoRun == [proc |-> "", store |-> "", out |-> "", rid |-> ""]
Event(p, store, out, rid) ==
  [proc |-> p, store |-> store, out |-> out, rid |-> rid]

Init ==
  /\ now = 0
  /\ ticks = 0
  /\ env \in EnvChoices
  /\ planningCache = [s \in StoreKey |-> NoEntry]
  /\ shipmentsCache = [s \in StoreKey |-> NoEntry]
  /\ reportCooldownUntil = [s \in StoreKey |-> 0]
  /\ planningRefreshInProgress = FALSE
  /\ tokenCache = [k \in TokenKeys |-> NoToken]
  /\ run = [p \in Procs |-> Idle]
  /\ last = NoRun
  /\ got = NoRead

----------------------------------------------------------------------------
(* Actions *)

\* Positions with a request in flight, by the function that awaits it
LoadLatestPcs == {"list", "reusePoll", "reusePollDoc", "reusePollDl",
                  "reuseDoc", "reuseDl"}
RefreshPcs == {"create", "poll", "doc", "dl"}
WaitPcs == LoadLatestPcs \cup RefreshPcs

\* A task's callback has run to its next await (r) or to its return.
\* A sweep goes on to its sleep(15000); a manual task is over.
Settle(p, r) ==
  IF r.pc = "returned"
  THEN /\ run' = [run EXCEPT ![p] =
                    IF p \in SweepProcs
                    THEN [Idle EXCEPT !.pc = "sweepSleep", !.idx = r.idx]
                    ELSE Idle]
       /\ last' = Event(p, r.store, r.out, r.rid)
  ELSE /\ run' = [run EXCEPT ![p] = r]
       /\ last' = NoRun

\* The job the run that has just returned gave up polling, for the run
\* that starts next
GaveUpOn(store) ==
  IF /\ last.store = store
     /\ last.out \in {"pollExhausted", "alreadyProcessing"}
  THEN last.rid ELSE ""

Started(r) ==
  IF r.pc = "returned" THEN r ELSE [r EXCEPT !.after = GaveUpOn(r.store)]

\* ... which is remembered until the request that follows the reuse check's
\* listing has been answered
Forget(r) == [r EXCEPT !.after = ""]

\* time passes
Tick(d) ==
  /\ ticks < MaxTicks
  /\ now' = now + d
  /\ ticks' = ticks + 1
  /\ UNCHANGED <<env, planningCache, shipmentsCache, reportCooldownUntil,
                 planningRefreshInProgress, tokenCache, run, got>>
  /\ last' = NoRun

\* variant: the trigger starts no run while a sweep is in progress
ManualRefreshUnlessSweeping(p, store) ==
  /\ p \in ManualProcs
  /\ run[p].pc = "idle"
  /\ ~planningRefreshInProgress
  /\ IF \A i \in 1..Len(REPORT_STORES) : REPORT_STORES[i] # store
     THEN /\ last' = Event(p, "", "unsupportedStore", "")
          /\ run' = run
     ELSE Settle(p, Started(StartRefresh(store, 0)))
  /\ UNCHANGED <<now, ticks, env, planningCache, shipmentsCache,
                 reportCooldownUntil, planningRefreshInProgress, tokenCache,
                 got>>

\* POST /api/reports/planning/refresh?store=...
ManualRefresh(p, store) ==
  /\ p \in ManualProcs
  /\ run[p].pc = "idle"
  /\ IF \A i \in 1..Len(REPORT_STORES) : REPORT_STORES[i] # store
     THEN /\ last' = Event(p, "", "unsupportedStore", "")
          /\ run' = run
     ELSE Settle(p, Started(StartRefresh(store, 0)))
  /\ UNCHANGED <<now, ticks, env, planningCache, shipmentsCache,
                 reportCooldownUntil, planningRefreshInProgress, tokenCache,
                 got>>

\* Invocations are interchangeable: a new one takes the first free slot.
FirstIdleSweep(p) ==
  \A q \in SweepProcs : run[q].pc = "idle" => ~(q = "sweep1" /\ p = "sweep2")

\* variant: the in-progress flag is not tested
SweepInvokeUnguarded(p) ==
  /\ p \in SweepProcs
  /\ run[p].pc = "idle"
  /\ FirstIdleSweep(p)
  /\ planningRefreshInProgress' = TRUE
  /\ Settle(p, Started(StartRefresh(REPORT_STORES[1], 1)))
  /\ UNCHANGED <<now, ticks, env, planningCache, shipmentsCache,
                 reportCooldownUntil, tokenCache, got>>

\* variant: the in-progress flag is not set
SweepInvokeFlagUnset(p) ==
  /\ p \in SweepProcs
  /\ run[p].pc = "idle"
  /\ FirstIdleSweep(p)
  /\ IF planningRefreshInProgress
     THEN /\ last' = Event(p, "", "sweepSkipped", "")
          /\ UNCHANGED <<run, planningRefreshInProgress>>
     ELSE /\ UNCHANGED planningRefreshInProgress
          /\ Settle(p, Started(StartRefresh(REPORT_STORES[1], 1)))
  /\ UNCHANGED <<now, ticks, env, planningCache, shipmentsCache,
                 reportCooldownUntil, tokenCache, got>>

\* refreshAllPlanningReports, called by the start-up timer or the cron tick
SweepInvoke(p) ==
  /\ p \in SweepProcs
  /\ run[p].pc = "idle"
  /\ FirstIdleSweep(p)
  /\ IF planningRefreshInProgress
     THEN /\ last' = Event(p, "", "sweepSkipped", "")
          /\ UNCHANGED <<run, planningRefreshInProgress>>
     ELSE /\ planningRefreshInProgress' = TRUE
          /\ Settle(p, Started(StartRefresh(REPORT_STORES[1], 1)))
  /\ UNCHANGED <<now, ticks, env, planningCache, shipmentsCache,
                 reportCooldownUntil, tokenCache, got>>

\* variant: the sweep ends without its finally block
SweepWakeFlagKept(p) ==
  /\ p \in SweepProcs
  /\ run[p].pc = "sweepSleep"
  /\ IF run[p].idx < Len(REPORT_STORES)
     THEN /\ Settle(p, Started(StartRefresh(REPORT_STORES[run[p].idx + 1],
                                            run[p].idx + 1)))
          /\ UNCHANGED planningRefreshInProgress
     ELSE /\ UNCHANGED planningRefreshInProgress
          /\ run' = [run EXCEPT ![p] = Idle]
          /\ last' = Event(p, "", "sweepDone", "")
  /\ UNCHANGED <<now, ticks, env, planningCache, shipmentsCache,
                 reportCooldownUntil, tokenCache, got>>

\* refreshAllPlanningReports after its sleep(15000): the next store, or the
\* finally block
SweepWake(p) ==
  /\ p \in SweepProcs
  /\ run[p].pc = "sweepSleep"
  /\ IF run[p].idx < Len(REPORT_STORES)
     THEN /\ Settle(p, Started(StartRefresh(REPORT_STORES[run[p].idx + 1],
                                            run[p].idx + 1)))
          /\ UNCHANGED planningRefreshInProgress
     ELSE /\ planningRefreshInProgress' = FALSE
          /\ run' = [run EXCEPT ![p] = Idle]
          /\ last' = Event(p, "", "sweepDone", "")
  /\ UNCHANGED <<now, ticks, env, planningCache, shipmentsCache,
                 reportCooldownUntil, tokenCache, got>>

\* getAccessToken: the token POST is answered; the awaited request goes out
TokenResponse(p, expiresIn) ==
  /\ run[p].pc \in WaitPcs
  /\ run[p].tok
  /\ tokenCache' = [tokenCache EXCEPT ![RefreshTokenOf(run[p].store)] =
                      [present |-> TRUE,
                       expiresAt |-> run[p].t0 + expiresIn * 1000]]
  /\ run' = [run EXCEPT ![p].tok = FALSE, ![p].t0 = 0]
  /\ last' = NoRun
  /\ UNCHANGED <<now, ticks, env, planningCache, shipmentsCache,
                 reportCooldownUntil, planningRefreshInProgress, got>>

\* listReports is answered
ListResponse(p, reports) ==
  /\ run[p].pc = "list"
  /\ ~run[p].tok
  /\ Settle(p, AfterList(run[p], reports))
  /\ UNCHANGED <<now, ticks, env, planningCache, shipmentsCache,
                 reportCooldownUntil, planningRefreshInProgress, tokenCache,
                 got>>

\* getReport is answered, in either poll loop.  The loop's 10 s sleep before
\* the next getReport is part of this step: the task reads and writes no
\* shared state between the answer and the next request, and the steps of
\* the other tasks interleave with the request in flight as they would
\* with the timer.
StatusResponse(p, status, docId) ==
  /\ run[p].pc \in {"reusePoll", "poll"}
  /\ ~run[p].tok
  /\ Settle(p, IF run[p].pc = "reusePoll"
               THEN AfterReusePoll(Forget(run[p]), status, docId)
               ELSE AfterPoll(Forget(run[p]), status, docId))
  /\ UNCHANGED <<now, ticks, env, planningCache, shipmentsCache,
                 reportCooldownUntil, planningRefreshInProgress, tokenCache,
                 got>>

\* getReportDocument is answered
DocumentResponse(p, url) ==
  /\ run[p].pc \in {"reusePollDoc", "reuseDoc", "doc"}
  /\ ~run[p].tok
  /\ Settle(p, AfterDocument(Forget(run[p]), url))
  /\ UNCHANGED <<now, ticks, env, planningCache, shipmentsCache,
                 reportCooldownUntil, planningRefreshInProgress, tokenCache,
                 got>>

\* variant: the parsed report is not stored
DownloadResponseNotStored(p) ==
  /\ run[p].pc \in {"reusePollDl", "reuseDl", "dl"}
  /\ UNCHANGED planningCache
  /\ Settle(p, Return(run[p], CASE run[p].pc = "reusePollDl" -> "finishedWhilePolling"
                                 [] run[p].pc = "reuseDl" -> "reused"
                                 [] OTHER -> "cached"))
  /\ UNCHANGED <<now, ticks, env, shipmentsCache, reportCooldownUntil,
                 planningRefreshInProgress, tokenCache, got>>

\* downloadReport is answered: parse and cache
DownloadResponse(p) ==
  /\ run[p].pc \in {"reusePollDl", "reuseDl", "dl"}
  /\ planningCache' = [planningCache EXCEPT ![run[p].store] =
                         CachedEntry(run[p])]
  /\ Settle(p, Return(run[p], CASE run[p].pc = "reusePollDl" -> "finishedWhilePolling"
                                 [] run[p].pc = "reuseDl" -> "reused"
                                 [] OTHER -> "cached"))
  /\ UNCHANGED <<now, ticks, env, shipmentsCache, reportCooldownUntil,
                 planningRefreshInProgress, tokenCache, got>>

\* createReport is answered with a report id
CreateResponse(p, reportId) ==
  /\ run[p].pc = "create"
  /\ ~run[p].tok
  /\ Settle(p, AfterCreate(Forget(run[p]), reportId))
  /\ UNCHANGED <<now, ticks, env, planningCache, shipmentsCache,
                 reportCooldownUntil, planningRefreshInProgress, tokenCache,
                 got>>

\* variant: a 429 blocks the store whichever request it answers
RequestFailsBlocksOnAny429(p, status, retryAfter) ==
  /\ run[p].pc \in WaitPcs
  /\ IF status = 429
     THEN /\ reportCooldownUntil' =
               [reportCooldownUntil EXCEPT ![run[p].store] =
                  BlockedUntil(run[p].store, retryAfter)]
          /\ Settle(p, Return(run[p], "rateLimited"))
     ELSE /\ UNCHANGED reportCooldownUntil
          /\ Settle(p, Return(run[p], "failed"))
  /\ UNCHANGED <<now, ticks, env, planningCache, shipmentsCache,
                 planningRefreshInProgress, tokenCache, got>>

\* The request in flight (the token POST included) fails: axios throws.
\* Inside createReportOnce a 429 is turned into a cooldown; every other
\* error reaches the catch of refreshPlanningReport and is logged.
RequestFails(p, status, retryAfter) ==
  /\ run[p].pc \in WaitPcs
  /\ IF run[p].pc = "create" /\ status = 429
     THEN /\ reportCooldownUntil' =
               [reportCooldownUntil EXCEPT ![run[p].store] =
                  BlockedUntil(run[p].store, retryAfter)]
          /\ Settle(p, Return(run[p], "rateLimited"))
     ELSE /\ UNCHANGED reportCooldownUntil
          /\ Settle(p, Return(run[p], "failed"))
  /\ UNCHANGED <<now, ticks, env, planningCache, shipmentsCache,
                 planningRefreshInProgress, tokenCache, got>>

Next ==
  \/ \E d \in TickSteps : Tick(d)
  \/ \E p \in ManualProcs, store \in RequestedStores : ManualRefresh(p, store)
  \/ \E p \in SweepProcs : SweepInvoke(p)
  \/ \E p \in SweepProcs : SweepWake(p)
  \/ \E p \in Procs, e \in ExpiresIns : TokenResponse(p, e)
  \/ \E p \in Procs, reports \in ListResponses : ListResponse(p, reports)
  \/ \E p \in Procs, status \in PollStatuses :
       \E docId \in {"", DocOf(run[p].rid)} : StatusResponse(p, status, docId)
  \/ \E p \in Procs, url \in DocumentUrls : DocumentResponse(p, url)
  \/ \E p \in Procs : DownloadResponse(p)
  \/ \E p \in Procs, id \in CreatedIds : CreateResponse(p, id)
  \/ \E p \in Procs, status \in FailStatuses :
       \E ra \in IF status = 429 THEN RetryAfters ELSE {0} :
         RequestFails(p, status, ra)

Spec == Init /\ [][Next]_vars

----------------------------------------------------------------------------
(* The cache getters on their own: entries of every age around the TTL,    *)
(* read at some time of the server's life.                                 *)

\* ages of an entry at the time of the read
AgesAround(ttl) == {0, 1, ttl - 1, ttl, ttl + 1}
\* times of the read
ReadTimes == {REPORT_CACHE_TTL_MS + 1, 2 * REPORT_CACHE_TTL_MS}
\* the stores read
ReadStores == {"US", "UK"}

EntriesAged(ages, doc) ==
  {NoEntry} \cup {[present |-> TRUE, fetchedAt |-> now - a, doc |-> doc] :
                   a \in ages}

InitTTL ==
  /\ now \in ReadTimes
  /\ ticks = 0
  /\ env = AllSet
  /\ \E e \in EntriesAged(AgesAround(REPORT_CACHE_TTL_MS), "D1") :
       planningCache = [s \in StoreKey |-> IF s = "US" THEN e ELSE NoEntry]
  /\ \E e \in EntriesAged(AgesAround(SHIPMENTS_CACHE_TTL_MS), "S1") :
       shipmentsCache = [s \in StoreKey |-> IF s = "US" THEN e ELSE NoEntry]
  /\ reportCooldownUntil = [s \in StoreKey |-> 0]
  /\ planningRefreshInProgress = FALSE
  /\ tokenCache = [k \in TokenKeys |-> NoToken]
  /\ run = [p \in Procs |-> Idle]
  /\ last = NoRun
  /\ got = NoRead

\* getPlanningCache(store) is called
ReadPlanningCache(store) ==
  /\ got' = [cache |-> "planning", store |-> store,
             value |-> getPlanningCache(store)]
  /\ UNCHANGED <<now, ticks, env, planningCache, shipmentsCache,
                 reportCooldownUntil, planningRefreshInProgress, tokenCache,
                 run, last>>

\* getShipmentsCache(store) is called
ReadShipmentsCache(store) ==
  /\ got' = [cache |-> "shipments", store |-> store,
             value |-> getShipmentsCache(store)]
  /\ UNCHANGED <<now, ticks, env, planningCache, shipmentsCache,
                 reportCooldownUntil, planningRefreshInProgress, tokenCache,
                 run, last>>

NextTTL ==
  \/ \E store \in ReadStores : ReadPlanningCache(store)
  \/ \E store \in ReadStores : ReadShipmentsCache(store)

SpecTTL == InitTTL /\ [][NextTTL]_vars

----------------------------------------------------------------------------
(* Properties *)

\* task p starts a refresh run for store in this step
RunStarts(p, store) ==
  \/ /\ p \in ManualProcs
     /\ \E i \in 1..Len(REPORT_STORES) : REPORT_STORES[i] = store
     /\ ManualRefresh(p, store)
  \/ /\ p \in SweepProcs
     /\ ~planningRefreshInProgress
     /\ store = REPORT_STORES[1]
     /\ SweepInvoke(p)
  \/ /\ p \in SweepProcs
     /\ run[p].pc = "sweepSleep"
     /\ run[p].idx < Len(REPORT_STORES)
     /\ store = REPORT_STORES[run[p].idx + 1]
     /\ SweepWake(p)

\* task p has a refresh run for store in flight
InFlight(p, store) == run[p].pc \in WaitPcs /\ run[p].store = store

\* C1: a run started while the store's planning entry is fresh (present and
\* younger than the TTL) has no request in flight when its first callback
\* ends, and leaves the planning cache, the cooldowns and the token cache
\* as they were.
C1FreshCacheShortCircuit ==
  [][\A p \in Procs, store \in StoreKey :
       ( /\ planningCache[store].present
         /\ now - planningCache[store].fetchedAt < REPORT_CACHE_TTL_MS
         /\ RunStarts(p, store) )
       => /\ run'[p].pc \notin WaitPcs
          /\ planningCache' = planningCache
          /\ reportCooldownUntil' = reportCooldownUntil
          /\ tokenCache' = tokenCache]_vars

\* a run has just returned at the fresh-cache test
C1Witness ==
  /\ last.out = "fresh"
  /\ planningCache["US"].present
  /\ \A p \in Procs : ~InFlight(p, "US")

\* C2: the cooldown stored for a store never decreases.
C2CooldownNeverDecreases ==
  [][\A store \in StoreKey :
       reportCooldownUntil'[store] >= reportCooldownUntil[store]]_vars

\* C3 (as stated): at most one refresh run, of a sweep or manual, is in
\* flight for a store.
C3OneRunPerStore ==
  \A store \in StoreKey :
    Cardinality({p \in Procs : InFlight(p, store)}) <= 1

\* C3 (amended): at most one refresh run started by a sweep is in flight
\* for a store; a manual run may be in flight beside it.
C3OneSweepRunPerStore ==
  \A store \in StoreKey :
    Cardinality({p \in SweepProcs : InFlight(p, store)}) <= 1

\* a sweep's run and a manual run in flight for the same store, while a
\* second sweep invocation has just been turned away
C3Witness ==
  /\ \E p \in SweepProcs, q \in ManualProcs :
       InFlight(p, "US") /\ InFlight(q, "US")
  /\ last.out = "sweepSkipped"

\* the sweep invocations past the in-progress test
SweepsPastCheck == {p \in SweepProcs : run[p].pc # "idle"}

\* C4: at most one sweep invocation is past the in-progress test, the flag
\* being set exactly while one is; an invocation that finds the flag set
\* changes nothing: no request, no task position taken, the flag left set.
C4SweepsNeverOverlap ==
  [][/\ Cardinality(SweepsPastCheck') <= 1
     /\ planningRefreshInProgress' <=> (SweepsPastCheck' # {})
     /\ \A p \in SweepProcs :
          (planningRefreshInProgress /\ SweepInvoke(p))
          => /\ planningRefreshInProgress'
             /\ UNCHANGED <<run, planningCache, reportCooldownUntil,
                            tokenCache>>]_vars

\* an invocation has just been turned away while a sweep's run is in flight
C4Witness ==
  /\ last.out = "sweepSkipped"
  /\ planningRefreshInProgress
  /\ \E p \in SweepProcs : run[p].pc \in WaitPcs

\* what a getter answers for an entry that is fresh while fresh(age) holds
Answer(entry, isFresh) == IF entry.present /\ isFresh THEN entry ELSE NoEntry

\* C5 (as stated): either getter returns the entry if and only if
\* now - fetchedAt < ttl.
C5FreshBelowTtl ==
  /\ got.cache = "planning" =>
       got.value =
         Answer(planningCache[got.store],
                now - planningCache[got.store].fetchedAt
                  < REPORT_CACHE_TTL_MS)
  /\ got.cache = "shipments" =>
       got.value =
         Answer(shipmentsCache[got.store],
                now - shipmentsCache[got.store].fetchedAt
                  < SHIPMENTS_CACHE_TTL_MS)

\* C5 (amended): either getter returns the entry if and only if
\* now - fetchedAt <= ttl.
C5FreshUpToTtl ==
  /\ got.cache = "planning" =>
       got.value =
         Answer(planningCache[got.store],
                now - planningCache[got.store].fetchedAt
                  <= REPORT_CACHE_TTL_MS)
  /\ got.cache = "shipments" =>
       got.value =
         Answer(shipmentsCache[got.store],
                now - shipmentsCache[got.store].fetchedAt
                  <= SHIPMENTS_CACHE_TTL_MS)

\* an entry read when its age is exactly the TTL, and returned
C5Witness ==
  /\ got.cache = "planning"
  /\ got.value.present
  /\ now - got.value.fetchedAt = REPORT_CACHE_TTL_MS

\* C6: a 429 answer to the report creation sets the store's cooldown to
\* now + retry-after * 1000 when the header is positive, else to now + 15
\* minutes; the run ends there: no request in flight (no polling), the
\* planning cache as it was, and the run returns normally instead of
\* ending in the error handler.
C6RateLimitedCreate ==
  [][\A p \in Procs :
       run[p].pc = "create" =>
         \A ra \in RetryAfters :
           RequestFails(p, 429, ra) =>
             /\ reportCooldownUntil'[run[p].store] =
                  now + (IF ra > 0 THEN ra * 1000 ELSE 15 * 60 * 1000)
             /\ run'[p].pc \notin WaitPcs
             /\ planningCache' = planningCache
             /\ last'.proc = p /\ last'.out = "rateLimited"]_vars

\* a run has just ended rate-limited, the retry-after hint of 120 s taken
C6Witness ==
  /\ last.out = "rateLimited"
  /\ reportCooldownUntil[last.store] = now + 120 * 1000
  /\ ~InFlight(last.proc, last.store)

\* the createReport request of task p leaves in this step
CreateGoesOut(p) ==
  /\ run'[p].pc = "create" /\ ~run'[p].tok
  /\ ~(run[p].pc = "create" /\ ~run[p].tok)

\* C7: no createReport request leaves for a store while the store is
\* blocked (now < cooldown).
C7NoCreateWhileBlocked ==
  [][\A p \in Procs :
       CreateGoesOut(p) => ~(now' < reportCooldownUntil'[run'[p].store])]_vars

\* the dated reports of a listing with the greatest createdTime
Greatest(reports) ==
  {reports[i] : i \in {i \in 1..Len(reports) :
                         /\ reports[i].createdTime # 0
                         /\ \A j \in 1..Len(reports) :
                              reports[j].createdTime
                                <= reports[i].createdTime}}

\* the listings whose one most recently created report satisfies Q
MostRecentIs(Q(_)) ==
  {reports \in ListResponses :
     /\ Cardinality(Greatest(reports)) = 1
     /\ \A r \in Greatest(reports) : Q(r)}

IsDone(r) == r.processingStatus = "DONE"
IsDoneWithDocument(r) == IsDone(r) /\ r.reportDocumentId # ""
IsPendingWithId(r) ==
  r.processingStatus \in {"IN_QUEUE", "IN_PROGRESS"} /\ r.reportId # ""

MostRecentDone == MostRecentIs(IsDone)
MostRecentDoneWithDocument == MostRecentIs(IsDoneWithDocument)
MostRecentPendingWithId == MostRecentIs(IsPendingWithId)
MostRecentOf == [reports \in MostRecentIs(LAMBDA r : TRUE) |->
                   CHOOSE r \in Greatest(reports) : TRUE]

\* C8 (as stated): when the most recently created listed report is done,
\* the run goes on to fetch its document and issues no createReport.
C8DoneIsReused ==
  [][\A p \in Procs :
       (run[p].pc = "list" /\ ~run[p].tok /\ run'[p] # run[p]) =>
         \A reports \in MostRecentDone :
           ListResponse(p, reports) => run'[p].pc = "reuseDoc"]_vars

\* C8 (amended): when the most recently created listed report is done and
\* carries a document id, the run requests that document; when the
\* document has a url the run downloads it; when the download succeeds the
\* run caches it, stamped now, and returns.  From the reuse of a done
\* report the run reaches createReport only if the document has no url.
C8DoneWithDocumentIsReused ==
  [][\A p \in Procs :
       /\ (run[p].pc = "list" /\ ~run[p].tok /\ run'[p] # run[p]) =>
            \A reports \in MostRecentDoneWithDocument :
              ListResponse(p, reports)
              => /\ run'[p].pc = "reuseDoc"
                 /\ run'[p].doc = MostRecentOf[reports].reportDocumentId
       /\ (run[p].pc = "reuseDoc" /\ ~run[p].tok
              /\ \E url \in DocumentUrls \ {""} : DocumentResponse(p, url))
            => run'[p].pc = "reuseDl" /\ run'[p].doc = run[p].doc
       /\ (run[p].pc = "reuseDl" /\ DownloadResponse(p))
            => /\ planningCache'[run[p].store] =
                    [present |-> TRUE, fetchedAt |-> now, doc |-> run[p].doc]
               /\ last'.proc = p /\ last'.out = "reused"
       /\ (run[p].pc \in {"reuseDoc", "reuseDl"} /\ run'[p].pc = "create")
            => run[p].pc = "reuseDoc" /\ DocumentResponse(p, "")]_vars

\* a run has just cached the document of the other, more recent report
C8Witness ==
  /\ last.out = "reused"
  /\ planningCache[last.store] =
       [present |-> TRUE, fetchedAt |-> now, doc |-> DocOf("R0")]

\* task p gets the answer `status` to a getReport in this step
Observes(p, status) ==
  /\ run[p].pc \in {"poll", "reusePoll"}
  /\ ~run[p].tok
  /\ \E docId \in {"", DocOf(run[p].rid)} : StatusResponse(p, status, docId)

Resumed(p) ==
  /\ run[p].pc = "reusePoll"
  /\ run[p].after # ""
  /\ run[p].rid = run[p].after

----------------------------------------------------------------------------
(* Bounded polling *)

PollPcs == {"poll", "reusePoll"}

\* C11: the getReport in flight of a poll loop is at most the 12th of that
\* loop (att counts the answers the loop has had); an answer of done with
\* a document id, cancelled or fatal is the loop's last getReport; any
\* other answer is followed by the loop's next getReport, one more counted,
\* or by the end of the run.
C11BoundedPolling ==
  [][\A p \in Procs :
       /\ run'[p].pc \in PollPcs => run'[p].att + 1 <= 12
       /\ \A status \in PollStatuses :
            Observes(p, status)
            => \/ run'[p].pc \notin PollPcs
               \/ /\ status \notin {"CANCELLED", "FATAL"}
                  /\ ~StatusResponse(p, "DONE", DocOf(run[p].rid))
                  /\ run'[p].pc = run[p].pc
                  /\ run'[p].rid = run[p].rid
                  /\ run'[p].att = run[p].att + 1]_vars

\* the 12th getReport of a poll loop is in flight
C11Witness ==
  \E p \in Procs : run[p].pc \in PollPcs /\ ~run[p].tok /\ run[p].att = 11

----------------------------------------------------------------------------
(* Soft failure *)

\* the request task p awaits fails in this step, and not as a createReport
\* answered 429
FailsSoftly(p) ==
  \E status \in FailStatuses, ra \in RetryAfters :
    /\ ~(run[p].pc = "create" /\ status = 429)
    /\ RequestFails(p, status, ra)

\* C12: when the request a run awaits fails (the listing, a getReport, the
\* getReportDocument, the download with its parse, or the createReport
\* with another error than a 429), the run returns normally with its error
\* logged: a sweep goes on to its sleep with its flag still held, a manual
\* task is over; the planning cache and the cooldowns are as they were.
C12SoftFailure ==
  [][\A p \in Procs :
       FailsSoftly(p)
       => /\ last' = Event(p, run[p].store, "failed", run[p].rid)
          /\ run'[p].pc \notin WaitPcs
          /\ p \in SweepProcs
               => /\ run'[p].pc = "sweepSleep"
                  /\ planningRefreshInProgress' = planningRefreshInProgress
          /\ p \in ManualProcs => run'[p] = Idle
          /\ planningCache' = planningCache
          /\ reportCooldownUntil' = reportCooldownUntil]_vars

\* a sweep's run has just failed in a store that has a cache entry and a
\* cooldown, both still there
C12Witness ==
  /\ last.out = "failed"
  /\ last.proc \in SweepProcs
  /\ run[last.proc].pc = "sweepSleep"
  /\ planningCache[last.store].present
  /\ reportCooldownUntil[last.store] > now

----------------------------------------------------------------------------
(* The runs of one task, one after the other, over more than a TTL *)

LongTickSteps == {HOUR_MS, 7 * HOUR_MS}

NextSequential ==
  \/ \E d \in LongTickSteps : Tick(d)
  \/ \E p \in ManualProcs, store \in RequestedStores : ManualRefresh(p, store)
  \/ \E p \in ManualProcs, e \in ExpiresIns : TokenResponse(p, e)
  \/ \E p \in ManualProcs, reports \in ListResponses : ListResponse(p, reports)
  \/ \E p \in ManualProcs, status \in PollStatuses :
       \E docId \in {"", DocOf(run[p].rid)} : StatusResponse(p, status, docId)
  \/ \E p \in ManualProcs, url \in DocumentUrls : DocumentResponse(p, url)
  \/ \E p \in ManualProcs : DownloadResponse(p)
  \/ \E p \in ManualProcs, id \in CreatedIds : CreateResponse(p, id)
  \/ \E p \in ManualProcs, status \in FailStatuses :
       \E ra \in IF status = 429 THEN RetryAfters ELSE {0} :
         RequestFails(p, status, ra)

SpecSequential == Init /\ [][NextSequential]_vars

\* the steps of a run that has created its report
Creates(p, id) == id # "" /\ CreateResponse(p, id)
SeesDone(p) ==
  run[p].pc = "poll" /\ StatusResponse(p, "DONE", DocOf(run[p].rid))
GetsUrl(p, url) == run[p].pc = "doc" /\ url # "" /\ DocumentResponse(p, url)
Downloads(p) == run[p].pc = "dl" /\ DownloadResponse(p)

\* a run of `store` starts on an entry older than the TTL
StartsExpired(p, store) ==
  /\ RunStarts(p, store)
  /\ hasCredentials(store)
  /\ planningCache[store].present
  /\ now - planningCache[store].fetchedAt > REPORT_CACHE_TTL_MS

\* C13: (run 1) a run whose createReport is answered polls the report; on
\* done with a document id it fetches the document, then downloads it, and
\* the download's answer stores the report's records, stamped with the
\* time, and ends the run.  (run 2) A run started while that entry is
\* younger than the TTL ends at once: no request, no state changed.
\* (run 3) A run started on an entry older than the TTL does not end
\* there but lists the reports; when its createReport is answered 429 the
\* store's cooldown is set from the time of the answer and the run ends
\* with no request in flight and the cache as it was.
C13ThreeRuns ==
  [][\A p \in ManualProcs :
       /\ \A id \in CreatedIds :
            Creates(p, id) => run'[p].pc = "poll" /\ run'[p].rid = id
                              /\ run'[p].att = 0
       /\ SeesDone(p) => run'[p].pc = "doc" /\ run'[p].doc = DocOf(run[p].rid)
       /\ \A url \in DocumentUrls :
            GetsUrl(p, url) => run'[p].pc = "dl" /\ ~run'[p].tok
       /\ Downloads(p)
            => /\ planningCache' =
                    [planningCache EXCEPT ![run[p].store] =
                       [present |-> TRUE, fetchedAt |-> now,
                        doc |-> run[p].doc]]
               /\ last' = Event(p, run[p].store, "cached", run[p].rid)
               /\ run'[p] = Idle
       /\ \A store \in RequestedStores :
            /\ ( /\ RunStarts(p, store)
                 /\ hasCredentials(store)
                 /\ planningCache[store].present
                 /\ now - planningCache[store].fetchedAt < REPORT_CACHE_TTL_MS )
               => /\ last' = Event(p, store, "fresh", "")
                  /\ run'[p] = Idle
                  /\ UNCHANGED <<planningCache, reportCooldownUntil,
                                 tokenCache>>
            /\ StartsExpired(p, store)
               => run'[p].pc = "list" /\ run'[p].store = store
       /\ \A ra \in RetryAfters :
            (run[p].pc = "create" /\ RequestFails(p, 429, ra))
            => /\ reportCooldownUntil' =
                    [reportCooldownUntil EXCEPT ![run[p].store] =
                       now + (IF ra > 0 THEN ra * 1000
                              ELSE REPORT_COOLDOWN_MS)]
               /\ last' = Event(p, run[p].store, "rateLimited", "")
               /\ run'[p] = Idle
               /\ planningCache' = planningCache]_vars

\* run 3 has just ended rate-limited: the store is blocked, and the entry
\* an earlier run stored more than a TTL ago is still the store's entry
C13Witness ==
  /\ last.out = "rateLimited"
  /\ reportCooldownUntil[last.store] > now
  /\ planningCache[last.store].present
  /\ planningCache[last.store].doc = DocOf("R1")
  /\ now - planningCache[last.store].fetchedAt > REPORT_CACHE_TTL_MS

----------------------------------------------------------------------------
(* fetchInventorySnapshot: the live inventory merged with the planning
   cache.  SpecSnapshot serves snapshots, one at a time, from caches of
   every age around their TTL, to every live answer of up to MaxLive
   summaries. *)

MaxLive == 2

\* pickNumber found no finite number (null)
NoNumber == -1

\* null in a sum counts as 0; `x ?? 0`
Num(x) == IF x = NoNumber THEN 0 ELSE x

\* Inventory summaries as the API answers them: the quantities are what
\* pickNumber picks of each group of fields, "" is an absent string.
SummaryQuantities ==
  { [fulfillable |-> NoNumber, totalQuantity |-> NoNumber,
     reserved |-> NoNumber, inboundTotal |-> NoNumber,
     inboundWorking |-> NoNumber, inboundShipped |-> NoNumber,
     inboundReceiving |-> NoNumber],
    [fulfillable |-> 0, totalQuantity |-> 10,
     reserved |-> 3, inboundTotal |-> NoNumber,
     inboundWorking |-> 2, inboundShipped |-> 3,
     inboundReceiving |-> NoNumber],
    [fulfillable |-> NoNumber, totalQuantity |-> 10,
     reserved |-> 4, inboundTotal |-> 0,
     inboundWorking |-> 2, inboundShipped |-> NoNumber,
     inboundReceiving |-> NoNumber] }

SummaryNames ==
  { [sellerSku |-> "A", asin |-> "X1", productName |-> "Live A"],
    [sellerSku |-> "", asin |-> "B", productName |-> ""],
    [sellerSku |-> "", asin |-> "", productName |-> ""] }

Summaries ==
  { [sellerSku |-> n.sellerSku, asin |-> n.asin,
     productName |-> n.productName,
     fulfillable |-> q.fulfillable, totalQuantity |-> q.totalQuantity,
     reserved |-> q.reserved, inboundTotal |-> q.inboundTotal,
     inboundWorking |-> q.inboundWorking,
     inboundShipped |-> q.inboundShipped,
     inboundReceiving |-> q.inboundReceiving] :
    n \in SummaryNames, q \in SummaryQuantities }

SummaryLists ==
  UNION { [1..n -> Summaries] : n \in 0..MaxLive }

\* Rows of a planning report, parsed
RowA ==
  [sku |-> "A", title |-> "Plan A", available |-> 42, inbound |-> 9,
   reserved |-> 7, sales7d |-> 4, sellThrough |-> 2, age90plusUnits |-> 6,
   estimatedLtsf |-> 20, estimatedStorage |-> 5]
RowA2 ==
  [sku |-> "A", title |-> "", available |-> 1, inbound |-> 0,
   reserved |-> 0, sales7d |-> 0, sellThrough |-> 0, age90plusUnits |-> 0,
   estimatedLtsf |-> 1, estimatedStorage |-> 0]
RowB ==
  [sku |-> "B", title |-> "", available |-> 8, inbound |-> 0,
   reserved |-> 2, sales7d |-> 1, sellThrough |-> 1, age90plusUnits |-> 0,
   estimatedLtsf |-> 0, estimatedStorage |-> 3]
RowC ==
  [sku |-> "C", title |-> "Plan C", available |-> 0, inbound |-> 4,
   reserved |-> 0, sales7d |-> 2, sellThrough |-> 3, age90plusUnits |-> 1,
   estimatedLtsf |-> 2, estimatedStorage |-> 2]
RowNoSku == [RowB EXCEPT !.sku = ""]

PlanningReports ==
  { <<>>, <<RowA>>, <<RowB, RowC>>, <<RowA, RowB, RowA2>>,
    <<RowNoSku, RowC>> }

ShipmentLists == { <<>>, <<"FBA1">> }

SnapshotStores == {"US", "UK"}
SnapshotProcs == {"stores1"}

\* the position and the locals of a fetchInventorySnapshot call
SnapIdle == [pc |-> "idle", store |-> "", summaries |-> <<>>,
             malformed |-> FALSE]

\* the index of sku in a Map's entries, in insertion order
IndexOf(items, sku) ==
  IF \E i \in 1..Len(items) : items[i].sku = sku
  THEN CHOOSE i \in 1..Len(items) : items[i].sku = sku
  ELSE 0

\* items.set(sku, item): a known key keeps its place
MapSet(items, item) ==
  LET i == IndexOf(items, item.sku)
  IN IF i = 0 THEN Append(items, item) ELSE [items EXCEPT ![i] = item]

\* merged.delete(sku)
MapDelete(items, i) ==
  [j \in 1..(Len(items) - 1) |-> IF j < i THEN items[j] ELSE items[j + 1]]

\* the row loop of cachePlanningReport: rows without a sku are skipped
RECURSIVE ItemsOf(_)
ItemsOf(rows) ==
  IF rows = <<>> THEN <<>>
  ELSE LET n == Len(rows)
           before == ItemsOf(SubSeq(rows, 1, n - 1))
           row == rows[n]
       IN IF row.sku = "" THEN before ELSE MapSet(before, row)

RECURSIVE RiskOf(_)
RiskOf(rows) ==
  IF rows = <<>> THEN 0
  ELSE LET n == Len(rows)
           before == RiskOf(SubSeq(rows, 1, n - 1))
           row == rows[n]
       IN IF row.sku = "" THEN before
          ELSE before + row.estimatedLtsf + row.estimatedStorage

\* planningCache.set(store, { fetchedAt, items, agingRisk })
PlanningEntry(fetchedAt, rows) ==
  [present |-> TRUE, fetchedAt |-> fetchedAt, doc |-> "D1",
   items |-> ItemsOf(rows), agingRisk |-> RiskOf(rows)]

\* shipmentsCache.set(store, { fetchedAt, shipments })
ShipmentsEntry(fetchedAt, shipments) ==
  [present |-> TRUE, fetchedAt |-> fetchedAt, doc |-> "",
   shipments |-> shipments]

\* inventorySummaries.map(...)
LiveItem(summary) ==
  LET sku == IF summary.sellerSku # "" THEN summary.sellerSku
             ELSE IF summary.asin # "" THEN summary.asin
             ELSE "UNKNOWN"
  IN [sku |-> sku,
      title |-> IF summary.productName # "" THEN summary.productName
                ELSE sku,
      onHand |-> IF summary.fulfillable # NoNumber THEN summary.fulfillable
                 ELSE Num(summary.totalQuantity),
      reserved |-> Num(summary.reserved),
      inbound |-> IF summary.inboundTotal # NoNumber
                  THEN summary.inboundTotal
                  ELSE Num(summary.inboundWorking)
                       + Num(summary.inboundShipped)
                       + Num(summary.inboundReceiving),
      sales7d |-> 0, age90plus |-> FALSE, stranded |-> 0, suppressed |-> 0,
      sellThrough |-> 0, margin |-> 0]

\* a live item with the planning record of its sku
MergeItem(item, planningItem) ==
  [item EXCEPT
     !.title = IF planningItem.title # "" THEN planningItem.title
               ELSE item.title,
     !.onHand = IF item.onHand = 0 THEN planningItem.available
                ELSE item.onHand,
     !.reserved = IF item.reserved = 0 THEN planningItem.reserved
                  ELSE item.reserved,
     !.inbound = IF item.inbound = 0 THEN planningItem.inbound
                 ELSE item.inbound,
     !.sales7d = planningItem.sales7d,
     !.age90plus = (planningItem.age90plusUnits > 0),
     !.sellThrough = planningItem.sellThrough]

\* a planning record no live item has taken
Synthetic(planningItem) ==
  [sku |-> planningItem.sku,
   title |-> IF planningItem.title # "" THEN planningItem.title
             ELSE planningItem.sku,
   onHand |-> planningItem.available,
   reserved |-> planningItem.reserved,
   inbound |-> planningItem.inbound,
   sales7d |-> planningItem.sales7d,
   age90plus |-> (planningItem.age90plusUnits > 0),
   stranded |-> 0, suppressed |-> 0,
   sellThrough |-> planningItem.sellThrough, margin |-> 0]

\* inventory.map over the live items, with the Map of the records not yet
\* taken: the first live item of a sku takes (and deletes) its record
RECURSIVE MergeLive(_, _)
MergeLive(inventory, merged) ==
  IF inventory = <<>> THEN [inventory |-> <<>>, merged |-> merged]
  ELSE LET item == Head(inventory)
           i == IndexOf(merged, item.sku)
           rest == MergeLive(Tail(inventory),
                             IF i = 0 THEN merged ELSE MapDelete(merged, i))
       IN [inventory |-> <<IF i = 0 THEN item
                           ELSE MergeItem(item, merged[i])>>
                         \o rest.inventory,
           merged |-> rest.merged]

\* variant: the records no live item has taken are not appended
MergedInventoryLiveOnly(inventory, items) ==
  MergeLive(inventory, items).inventory

\* the merge, with the records left over pushed as synthetic items
MergedInventory(inventory, items) ==
  LET m == MergeLive(inventory, items)
  IN m.inventory \o [i \in 1..Len(m.merged) |-> Synthetic(m.merged[i])]

Fallback == [agingRisk |-> 0, inventory |-> <<>>, shipments |-> <<>>]

\* variant: the stored planning entry is merged whatever its age
SnapshotOfAnyEntry(store, summaries, shipments) ==
  LET inventory == [i \in 1..Len(summaries) |-> LiveItem(summaries[i])]
      planning == planningCache[store]
  IN IF planning.present
     THEN [agingRisk |-> planning.agingRisk,
           inventory |-> MergedInventory(inventory, planning.items),
           shipments |-> shipments]
     ELSE [agingRisk |-> 0, inventory |-> inventory,
           shipments |-> shipments]

\* fetchInventorySnapshot once both of its requests have been answered
SnapshotOf(store, summaries, shipments) ==
  LET inventory == [i \in 1..Len(summaries) |-> LiveItem(summaries[i])]
      planning == getPlanningCache(store)
  IN IF planning.present
     THEN [agingRisk |-> planning.agingRisk,
           inventory |-> MergedInventory(inventory, planning.items),
           shipments |-> shipments]
     ELSE [agingRisk |-> 0, inventory |-> inventory,
           shipments |-> shipments]

\* History: the snapshot just served, with the summaries it was made of
Served(store, out, summaries, value) ==
  [cache |-> "snapshot", store |-> store, out |-> out, live |-> summaries,
   value |-> value]

SnapshotTimes == {2 * REPORT_CACHE_TTL_MS}
EntryAges(ttl) == {0, ttl, ttl + 1}

\* The server has run for a while: access tokens are cached, the report
\* store may have a planning entry, the stores may have shipment lists.
InitSnapshot ==
  /\ now \in SnapshotTimes
  /\ ticks = 0
  /\ env \in EnvChoices
  /\ planningCache \in
       [StoreKey ->
          {NoEntry} \cup
          { PlanningEntry(now - age, rows) :
              age \in EntryAges(REPORT_CACHE_TTL_MS),
              rows \in PlanningReports }]
  /\ \A store \in StoreKey :
       planningCache[store].present
       => \E i \in 1..Len(REPORT_STORES) : REPORT_STORES[i] = store
  /\ shipmentsCache \in
       [StoreKey ->
          {NoEntry} \cup
          { ShipmentsEntry(now - age, <<"FBA0">>) :
              age \in {0, SHIPMENTS_CACHE_TTL_MS + 1} }]
  /\ shipmentsCache["UK"] = shipmentsCache["US"]
  /\ \A store \in StoreKey \ SnapshotStores : ~shipmentsCache[store].present
  /\ reportCooldownUntil = [store \in StoreKey |-> 0]
  /\ planningRefreshInProgress = FALSE
  /\ tokenCache = [k \in TokenKeys |->
                     [present |-> TRUE,
                      expiresAt |-> now + DEFAULT_EXPIRES_IN * 1000]]
  /\ run = [p \in SnapshotProcs |-> SnapIdle]
  /\ last = NoRun
  /\ got = NoRead

\* the snapshot is returned
Serve(p, store, out, summaries, value) ==
  /\ got' = Served(store, out, summaries, value)
  /\ run' = [run EXCEPT ![p] = SnapIdle]

\* the mapping and the merge; a payload whose summaries are no array of
\* objects throws there, into the catch
Finish(p, r, shipments) ==
  IF r.malformed
  THEN Serve(p, r.store, "failed", <<>>, Fallback)
  ELSE Serve(p, r.store, "ok", r.summaries,
             SnapshotOf(r.store, r.summaries, shipments))

\* fetchInboundShipments up to its request: a fresh list is returned as it
\* is cached
AfterSummaries(p, r) ==
  LET cached == getShipmentsCache(r.store)
  IN IF cached.present
     THEN Finish(p, r, cached.shipments)
     ELSE /\ run' = [run EXCEPT ![p] = [r EXCEPT !.pc = "shipments"]]
          /\ got' = NoRead

\* fetchInventorySnapshot(store) is called
SnapshotRequest(p, store) ==
  /\ run[p].pc = "idle"
  /\ IF ~hasCredentials(store)
     THEN Serve(p, store, "noCredentials", <<>>, Fallback)
     ELSE /\ run' = [run EXCEPT ![p] = [SnapIdle EXCEPT !.pc = "live",
                                                       !.store = store]]
          /\ got' = NoRead
  /\ UNCHANGED <<now, ticks, env, planningCache, shipmentsCache,
                 reportCooldownUntil, planningRefreshInProgress, tokenCache,
                 last>>

\* the inventory summaries are answered
SummariesResponse(p, summaries) ==
  /\ run[p].pc = "live"
  /\ AfterSummaries(p, [run[p] EXCEPT !.summaries = summaries])
  /\ UNCHANGED <<now, ticks, env, planningCache, shipmentsCache,
                 reportCooldownUntil, planningRefreshInProgress, tokenCache,
                 last>>

\* ... with a payload that cannot be mapped
SummariesMalformed(p) ==
  /\ run[p].pc = "live"
  /\ AfterSummaries(p, [run[p] EXCEPT !.malformed = TRUE])
  /\ UNCHANGED <<now, ticks, env, planningCache, shipmentsCache,
                 reportCooldownUntil, planningRefreshInProgress, tokenCache,
                 last>>

\* the inventory request fails (timeout, 5xx): the catch returns fallback
SummariesFail(p) ==
  /\ run[p].pc = "live"
  /\ Serve(p, run[p].store, "failed", <<>>, Fallback)
  /\ UNCHANGED <<now, ticks, env, planningCache, shipmentsCache,
                 reportCooldownUntil, planningRefreshInProgress, tokenCache,
                 last>>

\* the inbound shipments are answered and cached
ShipmentsResponse(p, shipments) ==
  /\ run[p].pc = "shipments"
  /\ shipmentsCache' = [shipmentsCache EXCEPT ![run[p].store] =
                          ShipmentsEntry(now, shipments)]
  /\ Finish(p, run[p], shipments)
  /\ UNCHANGED <<now, ticks, env, planningCache, reportCooldownUntil,
                 planningRefreshInProgress, tokenCache, last>>

\* the shipments request fails: fetchInboundShipments returns []
ShipmentsFail(p) ==
  /\ run[p].pc = "shipments"
  /\ Finish(p, run[p], <<>>)
  /\ UNCHANGED <<now, ticks, env, planningCache, shipmentsCache,
                 reportCooldownUntil, planningRefreshInProgress, tokenCache,
                 last>>

NextSnapshot ==
  \/ \E p \in SnapshotProcs, store \in SnapshotStores :
       SnapshotRequest(p, store)
  \/ \E p \in SnapshotProcs, summaries \in SummaryLists :
       SummariesResponse(p, summaries)
  \/ \E p \in SnapshotProcs : SummariesMalformed(p)
  \/ \E p \in SnapshotProcs : SummariesFail(p)
  \/ \E p \in SnapshotProcs, shipments \in ShipmentLists :
       ShipmentsResponse(p, shipments)
  \/ \E p \in SnapshotProcs : ShipmentsFail(p)

SpecSnapshot == InitSnapshot /\ [][NextSnapshot]_vars

----------------------------------------------------------------------------
(* Properties of the snapshot merge *)

\* a snapshot made of live summaries has just been served
SnapshotServed == got.cache = "snapshot" /\ got.out = "ok"

\* the store's planning entry, no older than the TTL when the snapshot
\* was made (the clock of SpecSnapshot stands still)
FreshPlanning(store) ==
  /\ planningCache[store].present
  /\ now - planningCache[store].fetchedAt <= REPORT_CACHE_TTL_MS

PlanningItems == planningCache[got.store].items
LiveItems == [i \in 1..Len(got.live) |-> LiveItem(got.live[i])]

\* the i-th live item's sku is that of the k-th planning record
Matches(i, k) == LiveItems[i].sku = PlanningItems[k].sku

\* C14: with a fresh planning cache, for every live item whose sku is that
\* of a planning record, each of onHand, reserved and inbound of the merged
\* item is the live value if that is not zero, else the record's available,
\* reserved, inbound.
C14MergePrecedence ==
  (SnapshotServed /\ FreshPlanning(got.store))
  => \A i \in 1..Len(got.live), k \in 1..Len(PlanningItems) :
       Matches(i, k)
       => LET live == LiveItems[i]
              record == PlanningItems[k]
              item == got.value.inventory[i]
          IN /\ item.onHand = IF live.onHand # 0 THEN live.onHand
                              ELSE record.available
             /\ item.reserved = IF live.reserved # 0 THEN live.reserved
                                ELSE record.reserved
             /\ item.inbound = IF live.inbound # 0 THEN live.inbound
                               ELSE record.inbound

\* C15: with a fresh planning cache, every live item whose sku is that of
\* a planning record, several live summaries of one sku included, has the
\* record's sales7d, age90plus (age90plusUnits > 0) and sellThrough.
C15PlanningFieldsTaken ==
  (SnapshotServed /\ FreshPlanning(got.store))
  => \A i \in 1..Len(got.live), k \in 1..Len(PlanningItems) :
       Matches(i, k)
       => LET record == PlanningItems[k]
              item == got.value.inventory[i]
          IN /\ item.sales7d = record.sales7d
             /\ item.age90plus = (record.age90plusUnits > 0)
             /\ item.sellThrough = record.sellThrough

\* the k-th planning record has the sku of no live item
Unmatched(k) == \A i \in 1..Len(got.live) : ~Matches(i, k)

\* C16: with a fresh planning cache, every planning record whose sku is
\* that of no live item is in the merged inventory exactly once, with the
\* record's available, reserved, inbound, sales7d, age90plusUnits > 0 and
\* sellThrough, and titled by the record's title or, if that is empty, by
\* the sku.
C16NoRecordDropped ==
  (SnapshotServed /\ FreshPlanning(got.store))
  => \A k \in 1..Len(PlanningItems) :
       Unmatched(k)
       => LET record == PlanningItems[k]
              inventory == got.value.inventory
              at == {j \in 1..Len(inventory) : inventory[j].sku = record.sku}
          IN /\ Cardinality(at) = 1
             /\ \A j \in at :
                  /\ inventory[j].onHand = record.available
                  /\ inventory[j].reserved = record.reserved
                  /\ inventory[j].inbound = record.inbound
                  /\ inventory[j].sales7d = record.sales7d
                  /\ inventory[j].age90plus = (record.age90plusUnits > 0)
                  /\ inventory[j].sellThrough = record.sellThrough
                  /\ inventory[j].title = IF record.title = "" THEN record.sku
                                          ELSE record.title

\* a snapshot of live items and of two records no live item matches, one
\* of them without a title
C16Witness ==
  /\ SnapshotServed
  /\ FreshPlanning(got.store)
  /\ Len(got.live) > 0
  /\ Len(got.value.inventory) = Len(got.live) + 2
  /\ \E k \in 1..Len(PlanningItems) :
       Unmatched(k) /\ PlanningItems[k].title = ""

\* C17: a snapshot made without a planning entry, or with one older than
\* the TTL, is exactly the live items, each with sales7d 0, age90plus
\* false and sellThrough 0, and has agingRisk 0; a snapshot made with a
\* fresh planning entry has that entry's agingRisk.
C17PassThroughAndAgingRisk ==
  SnapshotServed
  => IF FreshPlanning(got.store)
     THEN got.value.agingRisk = planningCache[got.store].agingRisk
     ELSE /\ got.value.agingRisk = 0
          /\ Len(got.value.inventory) = Len(got.live)
          /\ \A i \in 1..Len(got.live) :
               LET item == got.value.inventory[i]
                   live == LiveItems[i]
               IN /\ item.sku = live.sku /\ item.title = live.title
                  /\ item.onHand = live.onHand
                  /\ item.reserved = live.reserved
                  /\ item.inbound = live.inbound
                  /\ item.sales7d = 0
                  /\ item.age90plus = FALSE
                  /\ item.sellThrough = 0

\* a snapshot of live items has been served while the stored planning
\* entry, with a record of a live item's sku and a risk total, has expired
C17Witness ==
  /\ SnapshotServed
  /\ planningCache[got.store].present
  /\ ~FreshPlanning(got.store)
  /\ planningCache[got.store].agingRisk > 0
  /\ \E i \in 1..Len(got.live), k \in 1..Len(PlanningItems) : Matches(i, k)

\* C18: a snapshot whose inventory call has failed, served while the store
\* holds a fresh planning entry with records and a fresh shipment list,
\* carries that cached data: the planning records, the entry's agingRisk,
\* the cached shipments.
C18PriorCacheServed ==
  ( /\ got.cache = "snapshot"
    /\ got.out = "failed"
    /\ FreshPlanning(got.store)
    /\ PlanningItems # <<>>
    /\ getShipmentsCache(got.store).present )
  => /\ Len(got.value.inventory) = Len(PlanningItems)
     /\ got.value.agingRisk = planningCache[got.store].agingRisk
     /\ got.value.shipments = getShipmentsCache(got.store).shipments

----------------------------------------------------------------------------
(* getAccessToken.  SpecToken calls it, from two callers at a time, for
   the stores' credential pairs, on cached tokens that expire around the
   safety margin, and has the token endpoint grant short and long
   lifetimes. *)

TokenProcs == {"call1", "call2"}
TokenStores == {"US", "UK", "CA"}
TokenTickSteps == {1000}
GrantedExpiresIns == {30, 61, DEFAULT_EXPIRES_IN}
CachedLifetimes == {TOKEN_MARGIN_MS, TOKEN_MARGIN_MS + 1, HOUR_MS}

\* the position and the locals of a getAccessToken call
TokenIdle == [pc |-> "idle", store |-> "", t0 |-> 0, cached |-> NoToken]

\* History: the token just returned to a caller, with its cache entry
Handed(store, how, entry) ==
  [cache |-> "token", store |-> store, key |-> RefreshTokenOf(store),
   how |-> how, expiresAt |-> entry.expiresAt, at |-> now]

InitToken ==
  /\ now = 0
  /\ ticks = 0
  /\ env = [lwaClientId |-> TRUE, lwaClientSecret |-> TRUE,
            refreshToken |-> [k \in TokenKeys |-> TRUE]]
  /\ planningCache = [store \in StoreKey |-> NoEntry]
  /\ shipmentsCache = [store \in StoreKey |-> NoEntry]
  /\ reportCooldownUntil = [store \in StoreKey |-> 0]
  /\ planningRefreshInProgress = FALSE
  /\ tokenCache \in
       [TokenKeys ->
          {NoToken} \cup
          { [present |-> TRUE, expiresAt |-> now + life] :
              life \in CachedLifetimes }]
  /\ ~tokenCache["AU"].present
  /\ run = [p \in TokenProcs |-> TokenIdle]
  /\ last = NoRun
  /\ got = NoRead

\* getAccessToken(config of store) up to its return or its POST
GetAccessToken(p, store) ==
  /\ run[p].pc = "idle"
  /\ IF TokenUsable(store)
     THEN /\ got' = Handed(store, "cached", tokenCache[RefreshTokenOf(store)])
          /\ run' = run
     ELSE /\ got' = NoRead
          /\ run' = [run EXCEPT ![p] =
                       [pc |-> "token", store |-> store, t0 |-> now,
                        cached |-> tokenCache[RefreshTokenOf(store)]]]
  /\ UNCHANGED <<now, ticks, env, planningCache, shipmentsCache,
                 reportCooldownUntil, planningRefreshInProgress, tokenCache,
                 last>>

\* the token POST is answered: the new token is cached and returned
TokenGranted(p, expiresIn) ==
  /\ run[p].pc = "token"
  /\ LET entry == [present |-> TRUE,
                   expiresAt |-> run[p].t0 + expiresIn * 1000]
     IN /\ tokenCache' = [tokenCache EXCEPT
                            ![RefreshTokenOf(run[p].store)] = entry]
        /\ got' = Handed(run[p].store, "refreshed", entry)
  /\ run' = [run EXCEPT ![p] = TokenIdle]
  /\ UNCHANGED <<now, ticks, env, planningCache, shipmentsCache,
                 reportCooldownUntil, planningRefreshInProgress, last>>

\* the token POST fails: getAccessToken throws
TokenRefused(p) ==
  /\ run[p].pc = "token"
  /\ got' = NoRead
  /\ run' = [run EXCEPT ![p] = TokenIdle]
  /\ UNCHANGED <<now, ticks, env, planningCache, shipmentsCache,
                 reportCooldownUntil, planningRefreshInProgress, tokenCache,
                 last>>

NextToken ==
  \/ \E d \in TokenTickSteps : Tick(d)
  \/ \E p \in TokenProcs, store \in TokenStores : GetAccessToken(p, store)
  \/ \E p \in TokenProcs, e \in GrantedExpiresIns : TokenGranted(p, e)
  \/ \E p \in TokenProcs : TokenRefused(p)

SpecToken == InitToken /\ [][NextToken]_vars

\* C19 (as stated): a token returned to a caller has a recorded expiresAt
\* more than 60 seconds after the time of the return.
C19NoTokenWithinMargin ==
  got.cache = "token" => got.expiresAt > got.at + 60000

\* C19 (amended): a token returned from the cache has a recorded expiresAt
\* more than 60 seconds after the time of the return; a call that finds no
\* entry for its pair, or one with expiresAt <= now + 60 s, returns nothing
\* yet and posts a refresh; the refresh's answer is recorded for the pair
\* alone, expiring expires_in after the time of the call, and is returned
\* whatever its lifetime.
C19CachedTokenOutsideMargin ==
  [][/\ (got'.cache = "token" /\ got'.how = "cached")
          => got'.expiresAt > got'.at + 60000
     /\ \A p \in TokenProcs, store \in TokenStores :
          ( /\ GetAccessToken(p, store)
            /\ \/ ~tokenCache[RefreshTokenOf(store)].present
               \/ tokenCache[RefreshTokenOf(store)].expiresAt <= now + 60000 )
          => /\ got' = NoRead
             /\ run'[p].pc = "token"
             /\ tokenCache' = tokenCache
     /\ \A p \in TokenProcs, e \in GrantedExpiresIns :
          TokenGranted(p, e)
          => /\ \A k \in TokenKeys \ {RefreshTokenOf(run[p].store)} :
                  tokenCache'[k] = tokenCache[k]
             /\ tokenCache'[RefreshTokenOf(run[p].store)] =
                  [present |-> TRUE, expiresAt |-> run[p].t0 + e * 1000]
             /\ got'.how = "refreshed"
             /\ got'.expiresAt = run[p].t0 + e * 1000]_vars

\* a call has found its pair's token exactly 60 s from expiry and has
\* posted a refresh, while another pair's token stays cached
C19Witness ==
  \E p \in TokenProcs :
    /\ run[p].pc = "token"
    /\ run[p].cached.present
    /\ run[p].cached.expiresAt = run[p].t0 + 60000
    /\ \E k \in TokenKeys \ {RefreshTokenOf(run[p].store)} :
         tokenCache[k].present

----------------------------------------------------------------------------
(* The manual trigger and the sweep's flag *)

\* C20: the trigger's handler is one step, which ends with its answer:
\* whenever the manual task is idle the step can be taken for a report
\* store, a sweep in progress or not; it leaves the in-progress flag as it
\* is, and unless the run it starts returns at once (no credentials, fresh
\* cache) the step leaves that run with its first request in flight, to
\* complete in later steps.  No step of a manual run changes the flag: the
\* flag changes only in steps of a sweep.
C20FireAndForget ==
  [][/\ \A p \in ManualProcs :
          run[p].pc = "idle"
          => \A i \in 1..Len(REPORT_STORES) :
               ENABLED ManualRefresh(p, REPORT_STORES[i])
     /\ \A p \in ManualProcs, i \in 1..Len(REPORT_STORES) :
          ManualRefresh(p, REPORT_STORES[i])
          => /\ planningRefreshInProgress' = planningRefreshInProgress
             /\ (hasCredentials(REPORT_STORES[i])
                   /\ ~getPlanningCache(REPORT_STORES[i]).present)
                => /\ run'[p].pc = "list"
                   /\ run'[p].store = REPORT_STORES[i]
     /\ planningRefreshInProgress' # planningRefreshInProgress
          => /\ \E q \in SweepProcs : run'[q] # run[q]
             /\ \A p \in ManualProcs : run'[p] = run[p]]_vars

\* the trigger has started a run, its listing in flight, for the store of
\* which a sweep in progress is polling a report
C20Witness ==
  /\ planningRefreshInProgress
  /\ \E p \in ManualProcs, q \in SweepProcs :
       /\ run[p].pc = "list"
       /\ run[q].pc = "poll"
       /\ run[q].store = run[p].store

----------------------------------------------------------------------------
(* The manual trigger's answer *)

\* the HTTP status of the trigger's answer: 400 with the list of allowed
\* stores, or 200 with { ok: true }
ManualStatus(store) ==
  IF \A i \in 1..Len(REPORT_STORES) : REPORT_STORES[i] # store
  THEN 400 ELSE 200

\* C21: a trigger request that names a store outside the report stores, or
\* a store whose credentials are missing, is answered in its own step as
\* rejected (status 400), and no refresh run is started for it.
C21RejectedSynchronously ==
  [][\A p \in ManualProcs, store \in RequestedStores :
       ( /\ ManualRefresh(p, store)
         /\ \/ \A i \in 1..Len(REPORT_STORES) : REPORT_STORES[i] # store
            \/ ~hasCredentials(store) )
       => /\ ManualStatus(store) = 400
          /\ last' = Event(p, "", "unsupportedStore", "")
          /\ run' = run]_vars

----------------------------------------------------------------------------
(* GET /api/reports/planning/status.  SpecStatus is SpecSequential with the
   status query asked at any moment. *)

\* new Date(ms).toISOString(), and null
ToISOString(ms) == [null |-> FALSE, ms |-> ms]
Null == [null |-> TRUE, ms |-> 0]

\* the status of one report store
StatusOf(store) ==
  LET cached == planningCache[store]
      cooldownUntil == reportCooldownUntil[store]
  IN [store |-> store,
      cached |-> cached.present,
      cachedAt |-> IF cached.present THEN ToISOString(cached.fetchedAt)
                   ELSE Null,
      cooldownUntil |-> IF cooldownUntil # 0 THEN ToISOString(cooldownUntil)
                        ELSE Null]

\* the query is answered; History: the answer, with its time
StatusQuery ==
  /\ got' = [cache |-> "status", store |-> "", at |-> now,
             value |-> [i \in 1..Len(REPORT_STORES) |->
                          StatusOf(REPORT_STORES[i])]]
  /\ last' = NoRun
  /\ UNCHANGED <<now, ticks, env, planningCache, shipmentsCache,
                 reportCooldownUntil, planningRefreshInProgress, tokenCache,
                 run>>

NextStatus ==
  \/ NextSequential
  \/ StatusQuery

SpecStatus == Init /\ [][NextStatus]_vars

\* C22: the status answer tells, for each report store, whether a planning
\* entry is stored and, if so, its fetch time; it carries a cooldown
\* expiry exactly when the store's cooldown is still active at the time of
\* the answer (now < until), and then that expiry.
C22StatusQuery ==
  [][StatusQuery
     => \A i \in 1..Len(REPORT_STORES) :
          LET store == REPORT_STORES[i]
              status == got'.value[i]
          IN /\ status.store = store
             /\ status.cached = planningCache[store].present
             /\ planningCache[store].present
                  => status.cachedAt =
                       ToISOString(planningCache[store].fetchedAt)
             /\ IF now < reportCooldownUntil[store]
                THEN status.cooldownUntil =
                       ToISOString(reportCooldownUntil[store])
                ELSE status.cooldownUntil = Null]_vars

----------------------------------------------------------------------------
(* computeAge90Plus and parseNumber.  Text is a sequence of characters.
   SpecAging computes the aggregate of every row of up to MaxColumns of
   the columns below; the values have no fraction. *)

MaxColumns == 3

InvAge0To90Days ==
  <<"i", "n", "v", "-", "a", "g", "e", "-", "0", "-", "t", "o", "-", "9", "0", "-", "d", "a", "y", "s">>
InvAge0To30Days ==
  <<"i", "n", "v", "-", "a", "g", "e", "-", "0", "-", "t", "o", "-", "3", "0", "-", "d", "a", "y", "s">>
InvAge31To60Days ==
  <<"i", "n", "v", "-", "a", "g", "e", "-", "3", "1", "-", "t", "o", "-", "6", "0", "-", "d", "a", "y", "s">>
InvAge61To90Days ==
  <<"i", "n", "v", "-", "a", "g", "e", "-", "6", "1", "-", "t", "o", "-", "9", "0", "-", "d", "a", "y", "s">>
InvAge91To180Days ==
  <<"i", "n", "v", "-", "a", "g", "e", "-", "9", "1", "-", "t", "o", "-", "1", "8", "0", "-", "d", "a", "y", "s">>
InvAge181To365Days ==
  <<"i", "n", "v", "-", "a", "g", "e", "-", "1", "8", "1", "-", "t", "o", "-", "3", "6", "5", "-", "d", "a", "y", "s">>
InvAge365PlusDays ==
  <<"i", "n", "v", "-", "a", "g", "e", "-", "3", "6", "5", "-", "p", "l", "u", "s", "-", "d", "a", "y", "s">>
AvailableColumn ==
  <<"a", "v", "a", "i", "l", "a", "b", "l", "e">>

ColumnNames ==
  {InvAge0To90Days, InvAge0To30Days, InvAge31To60Days, InvAge61To90Days,
   InvAge91To180Days, InvAge181To365Days, InvAge365PlusDays,
   AvailableColumn}

\* cell texts: "5", "7", "3", "" and "n/a"
CellValues == {<<"5">>, <<"7">>, <<"3">>, <<>>, <<"n", "/", "a">>}

\* a row of parseTabDelimited: an object, header -> text
AgingRows ==
  UNION { [names -> CellValues] :
            names \in {c \in SUBSET ColumnNames : Cardinality(c) <= MaxColumns} }

DigitChars == {"0", "1", "2", "3", "4", "5", "6", "7", "8", "9"}
DigitOf(c) ==
  CASE c = "0" -> 0 [] c = "1" -> 1 [] c = "2" -> 2 [] c = "3" -> 3
    [] c = "4" -> 4 [] c = "5" -> 5 [] c = "6" -> 6 [] c = "7" -> 7
    [] c = "8" -> 8 [] c = "9" -> 9

\* s.startsWith(t), s.includes(t)
StartsWith(s, t) == Len(s) >= Len(t) /\ SubSeq(s, 1, Len(t)) = t
Includes(s, t) ==
  \E i \in 1..(Len(s) - Len(t) + 1) : SubSeq(s, i, i + Len(t) - 1) = t

\* Number(text) of digits: the decimal value
RECURSIVE DecimalValue(_)
DecimalValue(digits) ==
  IF digits = <<>> THEN 0
  ELSE 10 * DecimalValue(SubSeq(digits, 1, Len(digits) - 1))
       + DigitOf(digits[Len(digits)])

AllDigits(s) == \A i \in 1..Len(s) : s[i] \in DigitChars

\* parseNumber: what is left of the text after every character but digits,
\* "." and "-" has gone is read as a number; "" reads as 0, and what is
\* no number (NaN) gives 0
parseNumber(value) ==
  LET cleaned == SelectSeq(value, LAMBDA c : c \in DigitChars \cup {".", "-"})
  IN IF value = <<>> THEN 0
     ELSE IF AllDigits(cleaned) THEN DecimalValue(cleaned)
     ELSE IF Head(cleaned) = "-" /\ Len(cleaned) > 1 /\ AllDigits(Tail(cleaned))
          THEN 0 - DecimalValue(Tail(cleaned))
     ELSE 0

InvAgePrefix == <<"i", "n", "v", "-", "a", "g", "e", "-">>
Bucket0To90 == <<"0", "-", "t", "o", "-", "9", "0">>
Bucket0To30 == <<"0", "-", "t", "o", "-", "3", "0">>
Bucket31To60 == <<"3", "1", "-", "t", "o", "-", "6", "0">>
Bucket61To90 == <<"6", "1", "-", "t", "o", "-", "9", "0">>

\* variant: the 61-to-90 bucket is not skipped
SkippedBucketThreeOnly(key) ==
  \/ Includes(key, Bucket0To90)
  \/ Includes(key, Bucket0To30)
  \/ Includes(key, Bucket31To60)

\* computeAge90Plus: the keys it `continue`s on after the prefix test
SkippedBucket(key) ==
  \/ Includes(key, Bucket0To90)
  \/ Includes(key, Bucket0To30)
  \/ Includes(key, Bucket31To60)
  \/ Includes(key, Bucket61To90)

\* computeAge90Plus over the entries `keys` of a row
RECURSIVE Age90PlusOver(_, _)
Age90PlusOver(row, keys) ==
  IF keys = {} THEN 0
  ELSE LET key == CHOOSE k \in keys : TRUE
           total == Age90PlusOver(row, keys \ {key})
       IN IF ~StartsWith(key, InvAgePrefix) THEN total
          ELSE IF SkippedBucket(key) THEN total
          ELSE total + parseNumber(row[key])

computeAge90Plus(row) == Age90PlusOver(row, DOMAIN row)

\* a row has been parsed; nothing else has happened
InitAging ==
  /\ now = 0
  /\ ticks = 0
  /\ env = AllSet
  /\ planningCache = [store \in StoreKey |-> NoEntry]
  /\ shipmentsCache = [store \in StoreKey |-> NoEntry]
  /\ reportCooldownUntil = [store \in StoreKey |-> 0]
  /\ planningRefreshInProgress = FALSE
  /\ tokenCache = [k \in TokenKeys |-> NoToken]
  /\ run = [p \in Procs |-> Idle]
  /\ last = NoRun
  /\ \E row \in AgingRows :
       got = [cache |-> "row", store |-> "", row |-> row, value |-> 0]

\* History: the aggregate of the row, once computed
ComputeAge90Plus ==
  /\ got' = [got EXCEPT !.cache = "age90plus",
                        !.value = computeAge90Plus(got.row)]
  /\ UNCHANGED <<now, ticks, env, planningCache, shipmentsCache,
                 reportCooldownUntil, planningRefreshInProgress, tokenCache,
                 run, last>>

NextAging == ComputeAge90Plus

SpecAging == InitAging /\ [][NextAging]_vars

\* the bucket a column is named after: its name without "inv-age-" and
\* without "-days"
BucketNamed(key) == SubSeq(key, Len(InvAgePrefix) + 1, Len(key) - 5)

\* the value of a cell as a number: its digits, 0 if it has none
RECURSIVE SumOfCells(_, _)
SumOfCells(row, keys) ==
  IF keys = {} THEN 0
  ELSE LET key == CHOOSE k \in keys : TRUE
       IN SumOfCells(row, keys \ {key})
          + (IF row[key] \in {<<"5">>, <<"7">>, <<"3">>}
             THEN DigitOf(row[key][1]) ELSE 0)

\* C23: the aggregate of a row is the sum of the numbers in its inv-age-
\* columns other than the buckets 0-to-90, 0-to-30, 31-to-60 and 61-to-90.
C23Age90PlusUnits ==
  got.cache = "age90plus"
  => got.value =
       SumOfCells(got.row,
                  {key \in DOMAIN got.row :
                     /\ SubSeq(key, 1, 8) = InvAgePrefix
                     /\ BucketNamed(key) \notin
                          {Bucket0To90, Bucket0To30, Bucket31To60,
                           Bucket61To90}})

\* the row inv-age-0-to-90-days=5, inv-age-91-to-180-days=7,
\* inv-age-181-to-365-days=3 has given 10
C23Witness ==
  /\ got.cache = "age90plus"
  /\ DOMAIN got.row = {InvAge0To90Days, InvAge91To180Days, InvAge181To365Days}
  /\ got.row[InvAge0To90Days] = <<"5">>
  /\ got.row[InvAge91To180Days] = <<"7">>
  /\ got.row[InvAge181To365Days] = <<"3">>
  /\ got.value = 10

----------------------------------------------------------------------------
(* The planning entry between the orchestrator that writes it and the
   snapshots that read it.  SpecCache is SpecSnapshot with the parse-and-
   cache step of a refresh run taken at any moment. *)

\* variant: the records are replaced, the entry's stamp is kept
CachePlanningReportKeepingStamp(store, rows) ==
  /\ planningCache' =
       [planningCache EXCEPT ![store] =
          IF planningCache[store].present
          THEN [PlanningEntry(now, rows) EXCEPT
                  !.fetchedAt = planningCache[store].fetchedAt]
          ELSE PlanningEntry(now, rows)]
  /\ got' = NoRead
  /\ UNCHANGED <<now, ticks, env, shipmentsCache, reportCooldownUntil,
                 planningRefreshInProgress, tokenCache, run, last>>

\* a run's download is answered with a document of these rows: the rows
\* are turned into records and planningCache.set stores the new entry
CachePlanningReport(store, rows) ==
  /\ planningCache' =
       [planningCache EXCEPT ![store] = PlanningEntry(now, rows)]
  /\ got' = NoRead
  /\ UNCHANGED <<now, ticks, env, shipmentsCache, reportCooldownUntil,
                 planningRefreshInProgress, tokenCache, run, last>>

NextCache ==
  \/ NextSnapshot
  \/ \E i \in 1..Len(REPORT_STORES), rows \in PlanningReports :
       CachePlanningReport(REPORT_STORES[i], rows)

SpecCache == InitSnapshot /\ [][NextCache]_vars

\* C24: a step that serves a snapshot, or any other step of a snapshot
\* call, leaves every planning entry as it is (records, fetchedAt, risk
\* total); a step that changes a store's entry is a parse-and-cache step,
\* which puts in its place a whole new entry: stamped with the time of
\* the step, with the records and the risk total of one document.
C24EntryReplacedWholesale ==
  [][/\ (\E p \in SnapshotProcs : run'[p] # run[p])
          => planningCache' = planningCache
     /\ got'.cache = "snapshot" => planningCache' = planningCache
     /\ \A store \in StoreKey :
          planningCache'[store] # planningCache[store]
          => \E rows \in PlanningReports :
               planningCache'[store] =
                 [present |-> TRUE, fetchedAt |-> now, doc |-> "D1",
                  items |-> ItemsOf(rows), agingRisk |-> RiskOf(rows)]]_vars

\* a snapshot has just been served in which a live item took the record
\* of its sku and another record was pushed: both records are still in
\* the store's entry
C24Witness ==
  /\ SnapshotServed
  /\ FreshPlanning(got.store)
  /\ Len(PlanningItems) = 2
  /\ \E i \in 1..Len(got.live), k \in 1..Len(PlanningItems) : Matches(i, k)
  /\ \E k \in 1..Len(PlanningItems) : Unmatched(k)

----------------------------------------------------------------------------
(* The cooldown and the reuse check *)

----------------------------------------------------------------------------
(* What writes a planning cache entry *)

DocPcs == {"reusePollDoc", "reuseDoc", "doc"}
DlPcs == {"reusePollDl", "reuseDl", "dl"}
StoredOutcomes == {"finishedWhilePolling", "reused", "cached"}

----------------------------------------------------------------------------
(* Progress of a sweep.  Every request in flight is answered or fails in   *)
(* the end (axios resolves or rejects, the poll loops' sleeps are timers), *)
(* and the sweep's sleep(15000) is a timer that fires.                     *)

\* the request task p awaits is answered, one way or another
Answered(p) ==
  \/ \E e \in ExpiresIns : TokenResponse(p, e)
  \/ \E reports \in ListResponses : ListResponse(p, reports)
  \/ \E status \in PollStatuses :
       \E docId \in {"", DocOf(run[p].rid)} : StatusResponse(p, status, docId)
  \/ \E url \in DocumentUrls : DocumentResponse(p, url)
  \/ DownloadResponse(p)
  \/ \E id \in CreatedIds : CreateResponse(p, id)
  \/ \E status \in FailStatuses :
       \E ra \in IF status = 429 THEN RetryAfters ELSE {0} :
         RequestFails(p, status, ra)

Fairness ==
  \A p \in SweepProcs : WF_vars(Answered(p)) /\ WF_vars(SweepWake(p))

\* the scheduled sweeps on their own: the start-up timer and the cron tick
\* call refreshAllPlanningReports, no manual request arrives
NextSweeps ==
  \/ \E d \in TickSteps : Tick(d)
  \/ \E p \in SweepProcs : SweepInvoke(p)
  \/ \E p \in SweepProcs : SweepWake(p)
  \/ \E p \in SweepProcs : Answered(p)

SpecLive == Init /\ [][NextSweeps]_vars /\ Fairness

\* C27: a sweep that has started (it holds the flag and is in one of its
\* runs or in its sleep) comes to its end, whatever the answers were: the
\* task is idle again and the in-progress flag is false.
C27SweepFinishes ==
  \A p \in SweepProcs :
    (run[p].pc # "idle") ~> (run[p].pc = "idle" /\ ~planningRefreshInProgress)

\* a sweep has just ended, some time after the start-up, and the flag is down
C27Witness ==
  \E p \in SweepProcs :
    /\ last = Event(p, "", "sweepDone", "")
    /\ run[p].pc = "idle"
    /\ ~planningRefreshInProgress
    /\ ticks > 0

----------------------------------------------------------------------------
(* The entry a parsed document leaves in the cache *)

\* the skus of a document's rows, the empty one apart
SkusOf(rows) == {rows[k].sku : k \in 1..Len(rows)} \ {""}

\* the last row of a document that carries the sku
LastRowOf(rows, sku) ==
  rows[CHOOSE k \in 1..Len(rows) :
         /\ rows[k].sku = sku
         /\ \A j \in (k + 1)..Len(rows) : rows[j].sku # sku]

\* estimatedLtsf + estimatedStorage, summed over stored records
RECURSIVE StoredRisk(_)
StoredRisk(items) ==
  IF items = <<>> THEN 0
  ELSE items[1].estimatedLtsf + items[1].estimatedStorage
       + StoredRisk(Tail(items))

\* the records: one per distinct non-empty sku of the document, each the
\* last row of its sku
OneRecordPerSku(entry, rows) ==
  /\ Len(entry.items) = Cardinality(SkusOf(rows))
  /\ \A sku \in SkusOf(rows) :
       \E k \in 1..Len(entry.items) : entry.items[k] = LastRowOf(rows, sku)
  /\ \A k \in 1..Len(entry.items) : entry.items[k].sku \in SkusOf(rows)

\* C28: after a document has been parsed and cached, the entry holds one
\* record per distinct non-empty sku (the last row of a sku wins, rows
\* without a sku are dropped) and its agingRisk is the sum of estimatedLtsf
\* + estimatedStorage over the records stored in items.
C28EntryConsistent ==
  [][\A i \in 1..Len(REPORT_STORES), rows \in PlanningReports :
       CachePlanningReport(REPORT_STORES[i], rows)
       => LET entry == planningCache'[REPORT_STORES[i]]
          IN /\ OneRecordPerSku(entry, rows)
             /\ entry.agingRisk = StoredRisk(entry.items)]_vars

\* the records alone (the part of C28 that the code keeps)
C28RecordsOnly ==
  [][\A i \in 1..Len(REPORT_STORES), rows \in PlanningReports :
       CachePlanningReport(REPORT_STORES[i], rows)
       => OneRecordPerSku(planningCache'[REPORT_STORES[i]], rows)]_vars

====
